---- MODULE Spec2Model ----
(***************************************************************************)
(* PaddockMap.vue: the <script setup> block of the component.              *)
(*                                                                         *)
(* The script derives, from the geoJSON prop, the distinct project ids, a  *)
(* colour per project, a summary per project and an enriched copy of the   *)
(* feature collection; once mounted it draws the enriched collection on a  *)
(* map and drives a single popup from layer clicks.                        *)
(*                                                                         *)
(* JavaScript values are tagged records, so that undefined, null, the      *)
(* empty string and 0 stay distinct values.  A properties object is a      *)
(* function from the keys it has to their values: an absent key is a key   *)
(* outside its DOMAIN, and reading it yields undefined.  Numbers are       *)
(* integers.                                                               *)
(***************************************************************************)
EXTENDS Integers, Sequences, FiniteSets, TLC

VARIABLES
    geoJSON,                    \* props.geoJSON
    input0,                     \* history: the prop as it was handed in
    pc,                         \* position in the script / component lifecycle
    project_ids,                \* const project_ids
    project_colours,            \* const project_colours
    project_summary,            \* const project_summary
    processedFeatures,          \* const processedFeatures
    reprocessed,                \* processFeatures applied to processedFeatures
    mapCentre,                  \* center given to new maplibregl.Map
    popup,                      \* the one maplibregl.Popup
    currentFeatureCoordinates,  \* let currentFeatureCoordinates
    lastEvent                   \* history: the last UI event delivered

vars == <<geoJSON, input0, pc, project_ids, project_colours, project_summary,
          processedFeatures, reprocessed, mapCentre, popup,
          currentFeatureCoordinates, lastEvent>>

(***************************************************************************)
(* Bounds of the model.                                                    *)
(***************************************************************************)
MaxProjFeatures == 4
MaxPaletteFeatures == 6
MaxAreaFeatures == 3
MaxOwnerFeatures == 3
MaxEnrichFeatures == 2
MaxMapFeatures == 2

(***************************************************************************)
(* JavaScript values and the conversions the script relies on.             *)
(***************************************************************************)
Undefined == [t |-> "undefined"]
Null == [t |-> "null"]
Str(s) == [t |-> "string", s |-> s]
Num(n) == [t |-> "number", n |-> n]

\* Not yet assigned (a const before its statement has run).
Unset == [t |-> "unset"]

\* ToBoolean, as used by `if (v)`, `v ? a : b` and `v || d`.
Truthy(v) ==
    CASE v.t = "undefined" -> FALSE
      [] v.t = "null"      -> FALSE
      [] v.t = "string"    -> v.s # ""
      [] v.t = "number"    -> v.n # 0

\* ToString, as used by template literals and by property keys.
ToStr(v) ==
    CASE v.t = "undefined" -> "undefined"
      [] v.t = "null"      -> "null"
      [] v.t = "string"    -> v.s
      [] v.t = "number"    -> ToString(v.n)

\* feature.properties?.key
Prop(feature, key) ==
    IF feature.properties = Null THEN Undefined
    ELSE IF key \in DOMAIN feature.properties THEN feature.properties[key]
    ELSE Undefined

\* obj[key] on a plain object: the key is converted to a string.
Lookup(obj, key) ==
    IF ToStr(key) \in DOMAIN obj THEN obj[ToStr(key)] ELSE Undefined

\* Object.fromEntries: a later entry with the same (string) key overrides.
RECURSIVE FromEntries(_)
FromEntries(entries) ==
    IF entries = <<>> THEN <<>>
    ELSE LET e == entries[Len(entries)]
         IN  (ToStr(e[1]) :> e[2]) @@ FromEntries(SubSeq(entries, 1, Len(entries) - 1))

\* Variant: keeps the last occurrence of each value, not the first.
RECURSIVE ArrayFromSet_KeepLast(_)
ArrayFromSet_KeepLast(arr) ==
    IF arr = <<>> THEN <<>>
    ELSE LET back  == ArrayFromSet_KeepLast(Tail(arr))
             first == arr[1]
         IN  IF \E j \in 1..Len(back) : back[j] = first THEN back
             ELSE <<first>> \o back

\* Array.from(new Set(arr)): first occurrences, in insertion order.
RECURSIVE ArrayFromSet(_)
ArrayFromSet(arr) ==
    IF arr = <<>> THEN <<>>
    ELSE LET front == ArrayFromSet(SubSeq(arr, 1, Len(arr) - 1))
             last  == arr[Len(arr)]
         IN  IF \E j \in 1..Len(front) : front[j] = last THEN front
             ELSE Append(front, last)

(***************************************************************************)
(* The derivations of the script.                                          *)
(***************************************************************************)
colours == <<"#E6C229", "#F17105", "#D11149", "#6610F2", "#1A8FE3">>

FallbackColour == "#888888"

ProjectName(feature) == Prop(feature, "Project__Name")

NotNull(v) == v # Null

ProjectNames(fc) == [i \in 1..Len(fc.features) |-> ProjectName(fc.features[i])]

ExtractProjectIds(fc) == ArrayFromSet(SelectSeq(ProjectNames(fc), NotNull))

PaletteColour(index) == colours[(index % Len(colours)) + 1]

AssignProjectColours(ids) ==
    FromEntries([i \in 1..Len(ids) |-> <<ids[i], Str(PaletteColour(i - 1))>>])

ProjectFeatures(fc, project_id) ==
    SelectSeq(fc.features, LAMBDA feature : ProjectName(feature) = project_id)

\* Variant: a negative area is dropped.
AreaTerm_DropNegative(feature) ==
    LET a == Prop(feature, "area_acres") IN IF Truthy(a) /\ a.n > 0 THEN a.n ELSE 0

AreaTerm(feature) ==
    LET a == Prop(feature, "area_acres") IN IF Truthy(a) THEN a.n ELSE 0

RECURSIVE TotalArea(_)
TotalArea(features) ==
    IF features = <<>> THEN 0
    ELSE TotalArea(SubSeq(features, 1, Len(features) - 1)) + AreaTerm(features[Len(features)])

\* Variant: the owner of the last matching feature.
FirstOwner_Last(features) ==
    IF Len(features) = 0 THEN Undefined ELSE Prop(features[Len(features)], "owner")

FirstOwner(features) ==
    IF Len(features) = 0 THEN Undefined ELSE Prop(features[1], "owner")

SummariseProject(fc, colourMap, project_id) ==
    LET project_features == ProjectFeatures(fc, project_id)
    IN  [name      |-> project_id,
         colour    |-> Lookup(colourMap, project_id),
         count     |-> Len(project_features),
         totalArea |-> TotalArea(project_features),
         owner     |-> FirstOwner(project_features)]

SummariseProjects(fc, colourMap, ids) ==
    [i \in 1..Len(ids) |-> SummariseProject(fc, colourMap, ids[i])]

FillColour(feature, colourMap) ==
    IF Truthy(ProjectName(feature))
    THEN Lookup(colourMap, ProjectName(feature))
    ELSE Str(FallbackColour)

\* Variant: the new description is appended to the one the feature already has.
Description_Accumulating(feature) ==
    Str((IF Truthy(Prop(feature, "description"))
         THEN ToStr(Prop(feature, "description")) ELSE "")
        \o "<strong>" \o ToStr(Prop(feature, "name")) \o "</strong>"
        \o "<p>Owner: " \o ToStr(Prop(feature, "owner"))
        \o "<br/>Area: " \o ToStr(Prop(feature, "area_acres")) \o " acres"
        \o (IF Truthy(ProjectName(feature))
            THEN "<br/>Project: " \o ToStr(ProjectName(feature)) ELSE "")
        \o "</p>")

Description(feature) ==
    Str("<strong>" \o ToStr(Prop(feature, "name")) \o "</strong>"
        \o "<p>Owner: " \o ToStr(Prop(feature, "owner"))
        \o "<br/>Area: " \o ToStr(Prop(feature, "area_acres")) \o " acres"
        \o (IF Truthy(ProjectName(feature))
            THEN "<br/>Project: " \o ToStr(ProjectName(feature)) ELSE "")
        \o "</p>")

\* Variant: the feature's own properties are not spread into the new object.
EnrichedProperties_NoSpread(feature, colourMap) ==
    ("fillColor" :> FillColour(feature, colourMap))
    @@ ("description" :> Description(feature))

\* { ...feature.properties, fillColor, description }: spreading null adds nothing.
EnrichedProperties(feature, colourMap) ==
    ("fillColor" :> FillColour(feature, colourMap))
    @@ ("description" :> Description(feature))
    @@ (IF feature.properties = Null THEN <<>> ELSE feature.properties)

EnrichFeature(feature, colourMap) ==
    [feature EXCEPT !.properties = EnrichedProperties(feature, colourMap)]

processFeatures(fc, colourMap) ==
    [type     |-> "FeatureCollection",
     features |-> [i \in 1..Len(fc.features) |-> EnrichFeature(fc.features[i], colourMap)]]

(***************************************************************************)
(* Geometry: a polygon's coordinates are a sequence of rings, a ring a     *)
(* sequence of <<lng, lat>> positions.  The coordinates used are even, so  *)
(* that the centre of a bounding box is an integer.                        *)
(***************************************************************************)
RECURSIVE Join(_)
Join(strs) ==
    IF strs = <<>> THEN ""
    ELSE IF Len(strs) = 1 THEN strs[1]
    ELSE Join(SubSeq(strs, 1, Len(strs) - 1)) \o "," \o strs[Len(strs)]

PositionToString(p) == Join([i \in 1..Len(p) |-> ToString(p[i])])

RingToString(ring) == Join([i \in 1..Len(ring) |-> PositionToString(ring[i])])

\* geometry.coordinates.toString(): nested arrays are joined with commas.
CoordinatesToString(coordinates) ==
    Join([i \in 1..Len(coordinates) |-> RingToString(coordinates[i])])

Min(S) == CHOOSE x \in S : \A y \in S : x <= y

Max(S) == CHOOSE x \in S : \A y \in S : x >= y

\* LngLatBounds extended by every coordinate, then getCenter().toArray().
findCentre(coordinates) ==
    LET lngs == {coordinates[i][1] : i \in 1..Len(coordinates)}
        lats == {coordinates[i][2] : i \in 1..Len(coordinates)}
    IN  <<(Min(lngs) + Max(lngs)) \div 2, (Min(lats) + Max(lats)) \div 2>>

RECURSIVE OuterRings(_)
OuterRings(features) ==
    IF features = <<>> THEN <<>>
    ELSE OuterRings(SubSeq(features, 1, Len(features) - 1))
         \o features[Len(features)].geometry.coordinates[1]

Square(x, y) ==
    [type |-> "Polygon",
     coordinates |-> << << <<x, y>>, <<x + 2, y>>, <<x + 2, y + 2>>, <<x, y + 2>>, <<x, y>> >> >>]

PaddockA == Square(0, 0)

PaddockB == Square(4, -2)

(***************************************************************************)
(* Inputs: feature collections drawn from small sets of property values.   *)
(***************************************************************************)
Feature(geometry, properties) ==
    [type |-> "Feature", geometry |-> geometry, properties |-> properties]

Optional(key, values) == {<<>>} \cup {key :> v : v \in values}

PropertiesOver(projects, names, owners, areas) ==
    {p @@ n @@ o @@ a :
        p \in Optional("Project__Name", projects), n \in Optional("name", names),
        o \in Optional("owner", owners), a \in Optional("area_acres", areas)}

FeaturesOver(geometries, projects, names, owners, areas) ==
    {Feature(g, p) : g \in geometries,
                     p \in PropertiesOver(projects, names, owners, areas) \cup {Null}}

Collections(features, maxLen) ==
    {[type |-> "FeatureCollection", features |-> fs] :
        fs \in UNION {[1..k -> features] : k \in 0..maxLen}}

ProjectFeatureSet ==
    FeaturesOver({PaddockA},
                 {Null, Str(""), Str("A"), Str("B"), Str("undefined")}, {}, {}, {})

PaletteFeatureSet ==
    FeaturesOver({PaddockA},
                 {Str("A"), Str("B"), Str("C"), Str("D"), Str("E"), Str("undefined")},
                 {}, {}, {}) \ {Feature(PaddockA, Null)}

AreaFeatureSet ==
    FeaturesOver({PaddockA}, {Null, Str("A"), Str("B")}, {}, {},
                 {Num(0), Num(-2), Num(3)})

OwnerFeatureSet ==
    FeaturesOver({PaddockA}, {Null, Str("A"), Str("B")}, {},
                 {Str("X"), Str("Y")}, {})

EnrichFeatureSet ==
    FeaturesOver({PaddockA}, {Null, Str(""), Str("A"), Str("undefined")},
                 {Str("n")}, {Str("X")}, {Num(3)})

MapFeatureSet ==
    FeaturesOver({PaddockA, PaddockB}, {Str("A")}, {Str("n")}, {}, {})

ClosedPopup == [open |-> FALSE, html |-> Undefined, lngLat |-> Undefined]

NoEvent == [kind |-> "none", feature |-> 0]

InitWith(inputs) ==
    /\ geoJSON \in inputs
    /\ input0 = geoJSON
    /\ pc = "project_ids"
    /\ project_ids = Unset
    /\ project_colours = Unset
    /\ project_summary = Unset
    /\ processedFeatures = Unset
    /\ reprocessed = Unset
    /\ mapCentre = Unset
    /\ popup = ClosedPopup
    /\ currentFeatureCoordinates = ""
    /\ lastEvent = NoEvent

(***************************************************************************)
(* The script's top-level statements, in order.                            *)
(***************************************************************************)
ComputeProjectIds ==
    /\ pc = "project_ids"
    /\ project_ids' = ExtractProjectIds(geoJSON)
    /\ pc' = "project_colours"
    /\ UNCHANGED <<geoJSON, input0, project_colours, project_summary, processedFeatures,
                   reprocessed, mapCentre, popup, currentFeatureCoordinates, lastEvent>>

ComputeProjectColours ==
    /\ pc = "project_colours"
    /\ project_colours' = AssignProjectColours(project_ids)
    /\ pc' = "project_summary"
    /\ UNCHANGED <<geoJSON, input0, project_ids, project_summary, processedFeatures,
                   reprocessed, mapCentre, popup, currentFeatureCoordinates, lastEvent>>

ComputeProjectSummary ==
    /\ pc = "project_summary"
    /\ project_summary' = SummariseProjects(geoJSON, project_colours, project_ids)
    /\ pc' = "processedFeatures"
    /\ UNCHANGED <<geoJSON, input0, project_ids, project_colours, processedFeatures,
                   reprocessed, mapCentre, popup, currentFeatureCoordinates, lastEvent>>

ComputeProcessedFeatures ==
    /\ pc = "processedFeatures"
    /\ processedFeatures' = processFeatures(geoJSON, project_colours)
    /\ pc' = "setup_done"
    /\ UNCHANGED <<geoJSON, input0, project_ids, project_colours, project_summary,
                   reprocessed, mapCentre, popup, currentFeatureCoordinates, lastEvent>>

\* processFeatures called again on its own output, with the same colour map.
Reprocess ==
    /\ pc = "setup_done"
    /\ reprocessed' = processFeatures(processedFeatures, project_colours)
    /\ pc' = "reprocessed"
    /\ UNCHANGED <<geoJSON, input0, project_ids, project_colours, project_summary,
                   processedFeatures, mapCentre, popup, currentFeatureCoordinates, lastEvent>>

NextPipeline ==
    \/ ComputeProjectIds
    \/ ComputeProjectColours
    \/ ComputeProjectSummary
    \/ ComputeProcessedFeatures
    \/ Reprocess

SpecProjects == InitWith(Collections(ProjectFeatureSet, MaxProjFeatures)) /\ [][NextPipeline]_vars

NextColours ==
    \/ ComputeProjectIds
    \/ ComputeProjectColours

SpecPalette == InitWith(Collections(PaletteFeatureSet, MaxPaletteFeatures)) /\ [][NextColours]_vars

SpecArea == InitWith(Collections(AreaFeatureSet, MaxAreaFeatures)) /\ [][NextPipeline]_vars

SpecOwner == InitWith(Collections(OwnerFeatureSet, MaxOwnerFeatures)) /\ [][NextPipeline]_vars

SpecEnrich == InitWith(Collections(EnrichFeatureSet, MaxEnrichFeatures)) /\ [][NextPipeline]_vars

(***************************************************************************)
(* The mounted component.  maplibre-gl is used through its documented      *)
(* Popup contract: addTo() first removes a popup that is already on a map; *)
(* remove() takes the popup off the map and fires 'close'; and a popup     *)
(* built without closeOnClick: false listens, while it is on a map, for    *)
(* that map's 'click' and removes itself.  Listeners of one event run in   *)
(* the order they were registered: the layer's click handler (registered   *)
(* on load) before the popup's own (registered by addTo).                  *)
(***************************************************************************)
Coordinates(fc) == OuterRings(fc.features)

Mounted ==
    /\ pc = "setup_done"
    /\ Len(Coordinates(processedFeatures)) > 0
    /\ mapCentre' = findCentre(Coordinates(processedFeatures))
    /\ pc' = "mounted"
    /\ UNCHANGED <<geoJSON, input0, project_ids, project_colours, project_summary,
                   processedFeatures, reprocessed, popup, currentFeatureCoordinates,
                   lastEvent>>

\* With no coordinate at all the bounds stay empty and getCenter() throws.
MountFails ==
    /\ pc = "setup_done"
    /\ Len(Coordinates(processedFeatures)) = 0
    /\ pc' = "mount_failed"
    /\ UNCHANGED <<geoJSON, input0, project_ids, project_colours, project_summary,
                   processedFeatures, reprocessed, mapCentre, popup,
                   currentFeatureCoordinates, lastEvent>>

\* map.on('load'): source, layer, the popup and the handlers are set up.
Load ==
    /\ pc = "mounted"
    /\ popup' = ClosedPopup
    /\ currentFeatureCoordinates' = ""
    /\ pc' = "loaded"
    /\ UNCHANGED <<geoJSON, input0, project_ids, project_colours, project_summary,
                   processedFeatures, reprocessed, mapCentre, lastEvent>>

\* popup.on('close', ...): the value of currentFeatureCoordinates after it ran.
OnPopupClose(current) == ""

\* Popup.remove(): off the map, then 'close' is fired.
PopupRemove(p, current) ==
    [popup |-> [p EXCEPT !.open = FALSE], current |-> OnPopupClose(current)]

\* popup.setLngLat(c).setHTML(d).addTo(map)
PopupAddTo(p, current, lngLat, html) ==
    LET removed == IF p.open THEN PopupRemove(p, current)
                   ELSE [popup |-> p, current |-> current]
    IN  [popup   |-> [open |-> TRUE, html |-> html, lngLat |-> lngLat],
         current |-> removed.current]

\* The handler of map.on('click', 'paddock-layer', ...) for e.features[0] = feature.
OnLayerClick(p, current, feature) ==
    LET geometry == feature.geometry
        featureCoordinates == CoordinatesToString(geometry.coordinates)
    IN  IF current # featureCoordinates
        THEN PopupAddTo(p, featureCoordinates, findCentre(geometry.coordinates[1]),
                        feature.properties.description)
        ELSE [popup |-> p, current |-> current]

\* The popup's closeOnClick listener, if it was registered when the click came.
OnMapClick(wasOpen, p, current) ==
    IF wasOpen THEN PopupRemove(p, current) ELSE [popup |-> p, current |-> current]

LayerClick(i) ==
    /\ pc = "loaded"
    /\ LET handled == OnLayerClick(popup, currentFeatureCoordinates,
                                   processedFeatures.features[i])
           after   == OnMapClick(popup.open, handled.popup, handled.current)
       IN  /\ popup' = after.popup
           /\ currentFeatureCoordinates' = after.current
    /\ lastEvent' = [kind |-> "click", feature |-> i]
    /\ UNCHANGED <<geoJSON, input0, pc, project_ids, project_colours, project_summary,
                   processedFeatures, reprocessed, mapCentre>>

\* A click on the map that hits no paddock.
MapClick ==
    /\ pc = "loaded"
    /\ popup.open
    /\ LET after == OnMapClick(popup.open, popup, currentFeatureCoordinates)
       IN  /\ popup' = after.popup
           /\ currentFeatureCoordinates' = after.current
    /\ lastEvent' = [kind |-> "mapclick", feature |-> 0]
    /\ UNCHANGED <<geoJSON, input0, pc, project_ids, project_colours, project_summary,
                   processedFeatures, reprocessed, mapCentre>>

\* The popup's close button (closeButton: true).
PopupCloseButton ==
    /\ pc = "loaded"
    /\ popup.open
    /\ LET after == PopupRemove(popup, currentFeatureCoordinates)
       IN  /\ popup' = after.popup
           /\ currentFeatureCoordinates' = after.current
    /\ lastEvent' = [kind |-> "close", feature |-> 0]
    /\ UNCHANGED <<geoJSON, input0, pc, project_ids, project_colours, project_summary,
                   processedFeatures, reprocessed, mapCentre>>

Next ==
    \/ ComputeProjectIds
    \/ ComputeProjectColours
    \/ ComputeProjectSummary
    \/ ComputeProcessedFeatures
    \/ Mounted
    \/ MountFails
    \/ Load
    \/ \E i \in 1..Len(geoJSON.features) : LayerClick(i)
    \/ MapClick
    \/ PopupCloseButton

Spec == InitWith(Collections(MapFeatureSet, MaxMapFeatures)) /\ [][Next]_vars

(***************************************************************************)
(* Vocabulary of the properties below.                                     *)
(***************************************************************************)
HasProjectColours == pc \notin {"project_ids", "project_colours"}

HasProjectSummary == pc \notin {"project_ids", "project_colours", "project_summary"}

HasProcessedFeatures ==
    pc \notin {"project_ids", "project_colours", "project_summary", "processedFeatures"}

InputFeatures == geoJSON.features

\* The feature has a Project__Name: the key is present and its value is not null.
HasProject(feature) == ProjectName(feature) # Undefined /\ ProjectName(feature) # Null

MatchingIndices(project_id) ==
    {j \in 1..Len(InputFeatures) : ProjectName(InputFeatures[j]) = project_id}

FirstAppearance(project_id) == Min(MatchingIndices(project_id))

RECURSIVE SumCounts(_)
SumCounts(summaries) ==
    IF summaries = <<>> THEN 0
    ELSE summaries[1].count + SumCounts(Tail(summaries))

\* area_acres as a number: a missing value counts 0, any other value as it is.
AreaAcres(feature) ==
    IF feature.properties # Null /\ "area_acres" \in DOMAIN feature.properties
    THEN feature.properties.area_acres.n ELSE 0

RECURSIVE SumAreaAcres(_)
SumAreaAcres(indices) ==
    IF indices = {} THEN 0
    ELSE LET j == CHOOSE j \in indices : TRUE
         IN  AreaAcres(InputFeatures[j]) + SumAreaAcres(indices \ {j})

Palette == {Str(colours[k]) : k \in 1..Len(colours)}

(***************************************************************************)
(* C1: the distinct-project sequence holds no null and no absent           *)
(* Project__Name; the keys of the colour map are exactly the distinct      *)
(* Project__Name values that are present and non-null in the input.        *)
(* Stated as claimed; it does not hold (an absent value is kept).          *)
(***************************************************************************)
C1_ExcludesNullAndAbsent ==
    HasProjectColours =>
        /\ \A i \in 1..Len(project_ids) :
               project_ids[i] # Null /\ project_ids[i] # Undefined
        /\ DOMAIN project_colours =
               {ProjectName(InputFeatures[j]).s :
                    j \in {k \in 1..Len(InputFeatures) : HasProject(InputFeatures[k])}}

(***************************************************************************)
(* C2: the counts of the summaries add up to the number of features that   *)
(* have a Project__Name, and no summary is produced for the features       *)
(* without one.  Stated as claimed; it does not hold.                      *)
(***************************************************************************)
C2_CountsCoverAssignedOnly ==
    HasProjectSummary =>
        /\ SumCounts(project_summary) =
               Cardinality({j \in 1..Len(InputFeatures) : HasProject(InputFeatures[j])})
        /\ \A i \in 1..Len(project_summary) : project_summary[i].name # Undefined

(***************************************************************************)
(* C3: an enriched feature's fillColor is colourMap[Project__Name] when    *)
(* Project__Name is present and non-null and the fallback otherwise, and   *)
(* is always a palette entry or the fallback.  Stated as claimed; it does  *)
(* not hold (an empty Project__Name gets the fallback).                    *)
(***************************************************************************)
C3_FillColourByProject ==
    HasProcessedFeatures =>
        \A i \in 1..Len(InputFeatures) :
            LET fill == processedFeatures.features[i].properties.fillColor
            IN  /\ fill = IF HasProject(InputFeatures[i])
                          THEN Lookup(project_colours, ProjectName(InputFeatures[i]))
                          ELSE Str(FallbackColour)
                /\ fill \in Palette \cup {Str(FallbackColour)}

(***************************************************************************)
(* C4: the distinct-project sequence has no duplicates and is in order of  *)
(* first appearance in the input, and there is one summary per entry, in   *)
(* the same order.                                                         *)
(***************************************************************************)
C4_DistinctInFirstAppearanceOrder ==
    HasProjectSummary =>
        /\ \A i, j \in 1..Len(project_ids) : i # j => project_ids[i] # project_ids[j]
        /\ \A i \in 1..Len(project_ids) : MatchingIndices(project_ids[i]) # {}
        /\ \A i, j \in 1..Len(project_ids) :
               i < j => FirstAppearance(project_ids[i]) < FirstAppearance(project_ids[j])
        /\ Len(project_summary) = Len(project_ids)
        /\ \A i \in 1..Len(project_ids) : project_summary[i].name = project_ids[i]

C4_Witness ==
    /\ HasProjectSummary
    /\ Len(project_ids) >= 2
    /\ Len(InputFeatures) > Len(project_ids)
    /\ ProjectName(InputFeatures[1]) = project_ids[1]
    /\ ProjectName(InputFeatures[Len(InputFeatures)]) = project_ids[1]

(***************************************************************************)
(* C5: colourMap[projects[i]] = palette[i mod 5] for every index i of the  *)
(* distinct-project sequence (0-based).  Stated as claimed; it does not    *)
(* hold when an absent Project__Name, kept in the sequence, shares the key *)
(* "undefined" with a project of that name.                                *)
(***************************************************************************)
C5_ColourByIndexModPalette ==
    HasProjectColours =>
        \A i \in 1..Len(project_ids) :
            Lookup(project_colours, project_ids[i]) = Str(colours[((i - 1) % 5) + 1])

\* The same statement over the inputs in which every feature has a Project__Name.
C5_ColourByIndexWhenAllAssigned ==
    (HasProjectColours /\ \A j \in 1..Len(InputFeatures) : HasProject(InputFeatures[j])) =>
        \A i \in 1..Len(project_ids) :
            Lookup(project_colours, project_ids[i]) = Str(colours[((i - 1) % 5) + 1])

C5_WrapReached ==
    /\ HasProjectColours
    /\ \A j \in 1..Len(InputFeatures) : HasProject(InputFeatures[j])
    /\ Len(project_ids) = 6
    /\ Lookup(project_colours, project_ids[6]) = Lookup(project_colours, project_ids[1])

(***************************************************************************)
(* C6: a summary's totalArea is the sum of area_acres over exactly the     *)
(* features whose Project__Name equals the summary's project, a missing or *)
(* zero area counting 0 and a negative area counting with its sign.        *)
(***************************************************************************)
C6_TotalAreaOverMatchingFeatures ==
    HasProjectSummary =>
        \A i \in 1..Len(project_summary) :
            project_summary[i].totalArea = SumAreaAcres(MatchingIndices(project_ids[i]))

C6_Witness ==
    /\ HasProjectSummary
    /\ \E i \in 1..Len(project_summary) :
           LET m == MatchingIndices(project_ids[i])
           IN  /\ HasProject(InputFeatures[FirstAppearance(project_ids[i])])
               /\ \E j \in m : AreaAcres(InputFeatures[j]) < 0
               /\ \E j \in m : Prop(InputFeatures[j], "area_acres") = Undefined
               /\ \E j \in 1..Len(InputFeatures) :
                      j \notin m /\ AreaAcres(InputFeatures[j]) > 0
               /\ project_summary[i].totalArea < 0

(***************************************************************************)
(* C7: a summary's owner is the owner of the first feature, in input       *)
(* order, whose Project__Name equals the summary's project; every project  *)
(* of the distinct-project sequence has at least one such feature.         *)
(***************************************************************************)
C7_OwnerOfFirstMatchingFeature ==
    HasProjectSummary =>
        \A i \in 1..Len(project_summary) :
            /\ MatchingIndices(project_ids[i]) # {}
            /\ project_summary[i].count >= 1
            /\ project_summary[i].owner =
                   Prop(InputFeatures[FirstAppearance(project_ids[i])], "owner")

C7_Witness ==
    /\ HasProjectSummary
    /\ \E i \in 1..Len(project_summary) :
           LET m == MatchingIndices(project_ids[i])
           IN  /\ HasProject(InputFeatures[FirstAppearance(project_ids[i])])
               /\ FirstAppearance(project_ids[i]) > 1
               /\ project_summary[i].owner = Str("X")
               /\ \E j \in m : Prop(InputFeatures[j], "owner") = Str("Y")

(***************************************************************************)
(* C8: processFeatures returns a collection of the same length and order   *)
(* whose features keep their geometry and every property other than        *)
(* fillColor and description; the collection it was given is unchanged.    *)
(***************************************************************************)
OwnProperties(feature) == IF feature.properties = Null THEN <<>> ELSE feature.properties

PassesThrough(in, out) ==
    /\ out.type = "FeatureCollection"
    /\ Len(out.features) = Len(in.features)
    /\ \A i \in 1..Len(in.features) :
           LET before == OwnProperties(in.features[i])
               after  == out.features[i].properties
           IN  /\ out.features[i].type = in.features[i].type
               /\ out.features[i].geometry = in.features[i].geometry
               /\ DOMAIN after = DOMAIN before \cup {"fillColor", "description"}
               /\ \A k \in DOMAIN before \ {"fillColor", "description"} :
                      after[k] = before[k]

C8_CopyPassesOtherFieldsThrough ==
    /\ geoJSON = input0
    /\ HasProcessedFeatures => PassesThrough(geoJSON, processedFeatures)
    /\ pc = "reprocessed" => PassesThrough(processedFeatures, reprocessed)

C8_Witness ==
    /\ HasProcessedFeatures
    /\ Len(InputFeatures) = 2
    /\ InputFeatures[1] # InputFeatures[2]
    /\ DOMAIN OwnProperties(InputFeatures[1]) =
           {"Project__Name", "name", "owner", "area_acres"}
    /\ InputFeatures[2].properties = Null

(***************************************************************************)
(* C9: processFeatures applied to its own output, with the same colour     *)
(* map, gives every feature the fillColor and the description the first    *)
(* application gave it.                                                    *)
(***************************************************************************)
C9_EnrichmentIdempotent ==
    pc = "reprocessed" =>
        /\ Len(reprocessed.features) = Len(processedFeatures.features)
        /\ \A i \in 1..Len(processedFeatures.features) :
               /\ reprocessed.features[i].properties.fillColor =
                      processedFeatures.features[i].properties.fillColor
               /\ reprocessed.features[i].properties.description =
                      processedFeatures.features[i].properties.description

C9_Witness ==
    /\ pc = "reprocessed"
    /\ \E i \in 1..Len(InputFeatures) :
           /\ Truthy(ProjectName(InputFeatures[i]))
           /\ reprocessed.features[i].properties.fillColor \in Palette
    /\ \E i \in 1..Len(InputFeatures) :
           reprocessed.features[i].properties.fillColor = Str(FallbackColour)

(***************************************************************************)
(* C10: the popup starts closed; the tracked signature is empty exactly    *)
(* when the popup is closed; an open popup shows the description of the    *)
(* feature clicked last; a click on a feature whose signature differs from *)
(* the tracked one leaves the popup open on that feature, a click on the   *)
(* feature displayed changes nothing, and a close resets the tracked       *)
(* signature.  Stated as claimed; it does not hold (a click while the      *)
(* popup is open closes it).                                               *)
(***************************************************************************)
Signature(i) == CoordinatesToString(processedFeatures.features[i].geometry.coordinates)

PopupTracksSignature ==
    pc = "loaded" =>
        /\ (currentFeatureCoordinates = "") <=> ~popup.open
        /\ popup.open =>
               /\ lastEvent.kind = "click"
               /\ popup.html = processedFeatures.features[lastEvent.feature].properties.description

ClickAsClaimed ==
    (pc = "loaded" /\ lastEvent'.kind = "click") =>
        IF Signature(lastEvent'.feature) # currentFeatureCoordinates
        THEN /\ popup'.open
             /\ popup'.html =
                    processedFeatures.features[lastEvent'.feature].properties.description
             /\ currentFeatureCoordinates' = Signature(lastEvent'.feature)
        ELSE UNCHANGED <<popup, currentFeatureCoordinates>>

CloseAsClaimed ==
    (pc = "loaded" /\ lastEvent'.kind = "close") =>
        ~popup'.open /\ currentFeatureCoordinates' = ""

C10_PopupTwoStateMachine ==
    /\ []PopupTracksSignature
    /\ [][ClickAsClaimed /\ CloseAsClaimed]_vars

====
